---- MODULE Spec2Model ----
(***************************************************************************)
(* Model of src/server.js: an Express relay with one endpoint, POST /,     *)
(* that forwards {prompt, history} to a generative-model client and maps   *)
(* the outcome to an HTTP response.                                        *)
(*                                                                         *)
(* The process is a single-threaded event loop: a callback runs to its     *)
(* next await (or to its end) without interleaving, so each action below   *)
(* is one such synchronous segment.  The model client (getGenerativeModel, *)
(* startChat, sendMessage, response.text) is the environment: each of its  *)
(* steps may throw, and the reply may be any of the texts in Texts.        *)
(***************************************************************************)
EXTENDS Naturals, Sequences, FiniteSets

\* ------------------------------------------------------------------ bounds
MaxReqs == 2
Reqs == 1..MaxReqs

\* ------------------------------------------------------------- JS values
\* A JavaScript value: its type tag, its printed scalar, and (for an array)
\* its elements.  The relay only ever tests such a value for truthiness and
\* passes it on.
JS(t, v, items) == [t |-> t, v |-> v, items |-> items]
Undefined == JS("undefined", "", <<>>)
Str(s) == JS("string", s, <<>>)
Num(s) == JS("number", s, <<>>)
Bool(s) == JS("boolean", s, <<>>)
Arr(items) == JS("array", "", items)
EmptyArray == Arr(<<>>)

\* JavaScript ToBoolean, as applied by `!x` and `x || y`.
Truthy(x) ==
    CASE x.t = "undefined" -> FALSE
      [] x.t = "null" -> FALSE
      [] x.t = "boolean" -> x.v = "true"
      [] x.t = "number" -> x.v \notin {"0", "NaN"}
      [] x.t = "string" -> x.v # ""
      [] OTHER -> TRUE

\* ------------------------------------------------------------ constants
PORT == 8080
MsgPromptRequired == "Prompt is required."
MsgError == "Error processing request. Check server logs for details."
\* Body written by Express's default error handler when a middleware fails.
ExpressErrorPage == "<express default error page>"
NoText == "<undefined>"

\* --------------------------------------------------------------- inputs
ApiKeys == {Undefined, Str(""), Str("key")}
Prompts == {Undefined, Str(""), Str("Hi"), Num("5"), Bool("true")}
Histories == {Undefined, EmptyArray, Arr(<<"user:A">>), Str("abc")}
\* What arrives on the wire: a body the strict JSON parser rejects (malformed
\* JSON, or a JSON scalar such as 42), no (JSON) body at all, or an object.
RawRequests ==
    {[kind |-> "unparsable", prompt |-> Undefined, history |-> Undefined],
     [kind |-> "nobody", prompt |-> Undefined, history |-> Undefined]}
    \cup {[kind |-> "json", prompt |-> p, history |-> h] :
            p \in Prompts, h \in Histories}
NoRequest == [kind |-> "none", prompt |-> Undefined, history |-> Undefined]
\* Texts the provider can return, and the steps of run() that can throw.
Texts == {"", "Hi there!"}
SyncSteps == {"startChat", "getGenerativeModel"}
AsyncSteps == {"sendMessage", "text"}
ErrDetail(step) == [getGenerativeModel |-> "GoogleGenerativeAIError: model",
                    startChat |-> "GoogleGenerativeAIError: history",
                    sendMessage |-> "FetchError: ECONNRESET",
                    text |-> "GoogleGenerativeAIResponseError: blocked"][step]

NoResponse == [status |-> 0, body |-> ""]
NoOutcome == [kind |-> "none", at |-> "", text |-> ""]
NotStarted == JS("not-started", "", <<>>)

VARIABLES
    phase,      \* "boot", "exited" or "listening"
    apiKey,     \* process.env.AI_KEY
    exitCode,   \* status passed to process.exit, 0 while running
    port,       \* port bound by app.listen, 0 before
    nreq,       \* number of requests that arrived (ids are arrival order)
    raw,        \* what each request carried on the wire
    pc,         \* "idle", "received", "awaiting", "done", "escaped"
    resp,       \* the response sent for each request
    startArg,   \* history passed to model.startChat for each request
    sent,       \* prompts passed to chatSession.sendMessage, per request
    outcome,    \* what the provider did for each request
    busy        \* requests whose synchronous code holds the JS thread

vars == <<phase, apiKey, exitCode, port, nreq, raw, pc, resp, startArg,
          sent, outcome, busy>>

reqVars == <<nreq, raw, pc, resp, startArg, sent, outcome, busy>>

Init ==
    /\ phase = "boot"
    /\ apiKey \in ApiKeys
    /\ exitCode = 0
    /\ port = 0
    /\ nreq = 0
    /\ raw = [r \in Reqs |-> NoRequest]
    /\ pc = [r \in Reqs |-> "idle"]
    /\ resp = [r \in Reqs |-> NoResponse]
    /\ startArg = [r \in Reqs |-> NotStarted]
    /\ sent = [r \in Reqs |-> <<>>]
    /\ outcome = [r \in Reqs |-> NoOutcome]
    /\ busy = {}

\* ------------------------------------------------------------- startup
ApiKeyOnlyUndefined(k) == k.t = "undefined"
\* if (!apiKey)
ApiKeyMissing(k) == ~Truthy(k)

\* Module evaluation, top to bottom: exit(1) without the key, else listen.
Startup ==
    /\ phase = "boot"
    /\ IF ApiKeyMissing(apiKey)
       THEN /\ phase' = "exited"
            /\ exitCode' = 1
            /\ port' = port
       ELSE /\ phase' = "listening"
            /\ port' = PORT
            /\ exitCode' = exitCode
    /\ UNCHANGED <<apiKey, reqVars>>

\* ------------------------------------------------------------- requests
\* A client's POST / reaches the listening socket.
Arrive(q) ==
    /\ phase = "listening"
    /\ nreq < MaxReqs
    /\ nreq' = nreq + 1
    /\ raw' = [raw EXCEPT ![nreq + 1] = q]
    /\ pc' = [pc EXCEPT ![nreq + 1] = "received"]
    /\ UNCHANGED <<phase, apiKey, exitCode, port, resp, startArg, sent,
                   outcome, busy>>

\* bodyParser.json(): the values req.body can have when the route handler
\* runs.  ok = FALSE: the strict parser rejected the body and the handler is
\* skipped.  Without a JSON body, req.body is {} or is left undefined,
\* depending on the installed body-parser.
BodyParser(q) ==
    CASE q.kind = "unparsable" ->
           {[ok |-> FALSE, defined |-> FALSE, prompt |-> Undefined,
             history |-> Undefined]}
      [] q.kind = "nobody" ->
           {[ok |-> TRUE, defined |-> d, prompt |-> Undefined,
             history |-> Undefined] : d \in BOOLEAN}
      [] OTHER ->
           {[ok |-> TRUE, defined |-> TRUE, prompt |-> q.prompt,
             history |-> q.history]}

\* req.body.history || []
HistoryOrDefault(h) == IF Truthy(h) THEN h ELSE EmptyArray

\* if (!prompt)
PromptMissing(p) == ~Truthy(p)

\* model.startChat({generationConfig, history: history})
StartChatRemembered(r, history) ==
    IF \E o \in Reqs : o # r /\ startArg[o] # NotStarted
    THEN startArg[CHOOSE o \in Reqs : o # r /\ startArg[o] # NotStarted]
    ELSE history
StartChatHistory(r, history) == history

\* chatSession.sendMessage(prompt)
SendMessageTwice(calls, prompt) == Append(Append(calls, prompt), prompt)
SendMessage(calls, prompt) == Append(calls, prompt)

\* return { Response: true, text: result.response.text() }
RunOk(t) == [Response |-> TRUE, text |-> t]
\* catch (err) { console.error(...); return { Response: false } }
RunCatchLeaks(err) == [Response |-> TRUE, text |-> err]
RunCatch(err) == [Response |-> FALSE, text |-> NoText]

\* if (response.Response === true) 200 text, else 500 fixed message
MapResponseTruthyText(result) ==
    IF result.Response = TRUE /\ result.text # ""
    THEN [status |-> 200, body |-> result.text]
    ELSE [status |-> 500, body |-> MsgError]
MapResponse(result) ==
    IF result.Response = TRUE
    THEN [status |-> 200, body |-> result.text]
    ELSE [status |-> 500, body |-> MsgError]

\* The await on sendMessage suspends the handler and frees the thread.
AwaitBlocks(r) == {r}
AwaitYield(r) == {}

\* The middleware and the handler, from the request's body being read up to
\* the handler's first suspension (or its end).
HandleRequest(r) ==
    /\ phase = "listening"
    /\ pc[r] = "received"
    /\ busy = {}
    /\ \E body \in BodyParser(raw[r]), fail \in SyncSteps \cup {"none"} :
         IF ~body.ok
         THEN \* next(err): Express's default error handler answers
              /\ pc' = [pc EXCEPT ![r] = "done"]
              /\ resp' = [resp EXCEPT ![r] =
                            [status |-> 400, body |-> ExpressErrorPage]]
              /\ UNCHANGED <<startArg, sent, outcome, busy>>
         ELSE IF ~body.defined
         THEN \* req.body.prompt throws a TypeError outside any try
              /\ pc' = [pc EXCEPT ![r] = "escaped"]
              /\ UNCHANGED <<resp, startArg, sent, outcome, busy>>
         ELSE IF PromptMissing(body.prompt)
         THEN /\ pc' = [pc EXCEPT ![r] = "done"]
              /\ resp' = [resp EXCEPT ![r] =
                            [status |-> 400, body |-> MsgPromptRequired]]
              /\ UNCHANGED <<startArg, sent, outcome, busy>>
         ELSE IF fail = "getGenerativeModel"
         THEN /\ outcome' = [outcome EXCEPT ![r] =
                    [kind |-> "throw", at |-> fail, text |-> ErrDetail(fail)]]
              /\ pc' = [pc EXCEPT ![r] = "done"]
              /\ resp' = [resp EXCEPT ![r] =
                            MapResponse(RunCatch(ErrDetail(fail)))]
              /\ UNCHANGED <<startArg, sent, busy>>
         ELSE IF fail = "startChat"
         THEN /\ startArg' = [startArg EXCEPT ![r] =
                    StartChatHistory(r, HistoryOrDefault(body.history))]
              /\ outcome' = [outcome EXCEPT ![r] =
                    [kind |-> "throw", at |-> fail, text |-> ErrDetail(fail)]]
              /\ pc' = [pc EXCEPT ![r] = "done"]
              /\ resp' = [resp EXCEPT ![r] =
                            MapResponse(RunCatch(ErrDetail(fail)))]
              /\ UNCHANGED <<sent, busy>>
         ELSE /\ startArg' = [startArg EXCEPT ![r] =
                    StartChatHistory(r, HistoryOrDefault(body.history))]
              /\ sent' = [sent EXCEPT ![r] = SendMessage(sent[r], body.prompt)]
              /\ pc' = [pc EXCEPT ![r] = "awaiting"]
              /\ busy' = AwaitYield(r)
              /\ UNCHANGED <<resp, outcome>>
    /\ UNCHANGED <<phase, apiKey, exitCode, port, nreq, raw>>

\* sendMessage resolved and response.text() returned t: the handler resumes.
ProviderResolve(r, t) ==
    /\ pc[r] = "awaiting"
    /\ busy = {}
    /\ outcome' = [outcome EXCEPT ![r] =
                     [kind |-> "ok", at |-> "", text |-> t]]
    /\ pc' = [pc EXCEPT ![r] = "done"]
    /\ resp' = [resp EXCEPT ![r] = MapResponse(RunOk(t))]
    /\ UNCHANGED <<phase, apiKey, exitCode, port, nreq, raw, startArg, sent,
                   busy>>

\* sendMessage rejected, or response.text() threw: run()'s catch, then the
\* handler resumes.
ProviderReject(r, step) ==
    /\ pc[r] = "awaiting"
    /\ busy = {}
    /\ outcome' = [outcome EXCEPT ![r] =
                     [kind |-> "throw", at |-> step, text |-> ErrDetail(step)]]
    /\ pc' = [pc EXCEPT ![r] = "done"]
    /\ resp' = [resp EXCEPT ![r] = MapResponse(RunCatch(ErrDetail(step)))]
    /\ UNCHANGED <<phase, apiKey, exitCode, port, nreq, raw, startArg, sent,
                   busy>>

Next ==
    \/ Startup
    \/ \E q \in RawRequests : Arrive(q)
    \/ \E r \in Reqs : HandleRequest(r)
    \/ \E r \in Reqs, t \in Texts : ProviderResolve(r, t)
    \/ \E r \in Reqs, step \in AsyncSteps : ProviderReject(r, step)

Spec == Init /\ [][Next]_vars

\* The event loop runs every ready callback; nothing in the code bounds the
\* wait for the provider, so its reply carries no fairness.
FairSpec ==
    /\ Spec
    /\ WF_vars(Startup)
    /\ \A r \in Reqs : WF_vars(HandleRequest(r))

\* -------------------------------------------------------------- claims
Fixed400 == [status |-> 400, body |-> MsgPromptRequired]
Fixed500 == [status |-> 500, body |-> MsgError]
\* The handler ran for r, at least up to its first suspension.
Handled(r) == pc[r] \in {"awaiting", "done"}
IsNonEmptyString(x) == x.t = "string" /\ x.v # ""

\* C1: a request carrying a JSON object whose prompt is absent, empty or not
\* a string is answered 400 "Prompt is required." and reaches neither
\* startChat nor sendMessage.
C1_MissingPromptRejected ==
    \A r \in Reqs :
        (Handled(r) /\ raw[r].kind = "json" /\ ~IsNonEmptyString(raw[r].prompt))
        => /\ resp[r] = Fixed400
           /\ startArg[r] = NotStarted
           /\ sent[r] = <<>>

\* C2: with a valid prompt and a history that is absent or not an array, the
\* chat is started with the empty history [].
C2_NonArrayHistoryIsEmpty ==
    \A r \in Reqs :
        (/\ raw[r].kind = "json"
         /\ IsNonEmptyString(raw[r].prompt)
         /\ raw[r].history.t # "array"
         /\ startArg[r] # NotStarted)
        => startArg[r] = EmptyArray

\* C3: once the provider call of a request has succeeded with text t, the
\* request is answered 200 with body t, the empty text included.
C3_SuccessIsVerbatim200 ==
    \A r \in Reqs :
        outcome[r].kind = "ok"
        => /\ pc[r] = "done"
           /\ resp[r] = [status |-> 200, body |-> outcome[r].text]
C3_Witness ==
    \E r \in Reqs :
        /\ outcome[r].kind = "ok"
        /\ outcome[r].text = ""
        /\ resp[r].status = 200

\* C4: whichever step of run() threw, the request is answered 500 with the
\* fixed message, which is not the error's detail.
C4_FailureIsFixed500 ==
    \A r \in Reqs :
        outcome[r].kind = "throw"
        => /\ pc[r] = "done"
           /\ resp[r] = Fixed500
           /\ resp[r].body # outcome[r].text
C4_Witness ==
    \E r1, r2 \in Reqs :
        /\ outcome[r1].kind = "throw" /\ outcome[r1].at = "startChat"
        /\ outcome[r2].kind = "throw" /\ outcome[r2].at = "text"
        /\ resp[r1] = Fixed500 /\ resp[r2] = Fixed500

\* C5: the chat of a request is started with that request's own history (or
\* [] when it carried a falsy one) and is sent that request's own prompt;
\* a request that reached the provider made its own call, whatever the other
\* requests carried.
C5_Stateless ==
    \A r \in Reqs :
        /\ startArg[r] # NotStarted
           => startArg[r] = (IF Truthy(raw[r].history) THEN raw[r].history
                             ELSE EmptyArray)
        /\ \A i \in 1..Len(sent[r]) : sent[r][i] = raw[r].prompt
        /\ (pc[r] = "awaiting" \/ outcome[r].kind = "ok") => Len(sent[r]) = 1
C5_Witness ==
    \E r1, r2 \in Reqs :
        /\ r1 < r2
        /\ raw[r1] = raw[r2]
        /\ raw[r1].history = Arr(<<"user:A">>)
        /\ pc[r1] = "done" /\ outcome[r1].kind = "ok"
        /\ pc[r2] = "awaiting"
        /\ Len(sent[r1]) = 1 /\ Len(sent[r2]) = 1

\* C6 as claimed: a completed request whose prompt passed the check made
\* exactly one sendMessage call, any other none.
C6_ExactlyOneCall ==
    \A r \in Reqs :
        pc[r] = "done"
        => Len(sent[r]) = (IF raw[r].kind = "json" /\ Truthy(raw[r].prompt)
                           THEN 1 ELSE 0)
\* C6 as amended: no request makes more than one sendMessage call; a request
\* whose prompt is falsy makes none; a request makes exactly one precisely
\* when getting the model and starting the chat did not throw, and a failed
\* call is not repeated.
C6_AtMostOneCall ==
    \A r \in Reqs :
        /\ Len(sent[r]) <= 1
        /\ ~Truthy(raw[r].prompt) => sent[r] = <<>>
        /\ Len(sent[r]) = 1
           <=> \/ pc[r] = "awaiting"
               \/ outcome[r].kind = "ok"
               \/ outcome[r].kind = "throw" /\ outcome[r].at \in AsyncSteps
C6_Witness ==
    \E r1, r2 \in Reqs :
        /\ pc[r1] = "done" /\ outcome[r1].at = "sendMessage"
        /\ Len(sent[r1]) = 1
        /\ pc[r2] = "done" /\ outcome[r2].at = "startChat"
        /\ Len(sent[r2]) = 0

\* C7: without a truthy AI_KEY the process exits with status 1, never binds
\* a port and never receives a request; with one it does not exit, and once
\* listening it is bound to PORT.
C7_StartupGate ==
    /\ phase = "exited"
       => ~Truthy(apiKey) /\ exitCode # 0 /\ port = 0 /\ nreq = 0
    /\ phase = "listening" => Truthy(apiKey) /\ port = PORT /\ exitCode = 0
    /\ ~Truthy(apiKey) => phase # "listening" /\ nreq = 0
    /\ Truthy(apiKey) => phase # "exited"
    /\ nreq > 0 => phase = "listening"
C7_Witness == phase = "exited" /\ apiKey = Str("") /\ exitCode = 1

\* C8: no request's handling ends with an exception escaping, and every
\* answer other than a 200 is one of the two fixed ones.
C8_NoEscape ==
    \A r \in Reqs :
        /\ pc[r] # "escaped"
        /\ pc[r] = "done"
           => resp[r].status = 200 \/ resp[r] \in {Fixed400, Fixed500}

\* C9: while a request waits for the provider, the thread is free and any
\* received request can be handled.
C9_PendingDoesNotBlock ==
    \A r1, r2 \in Reqs :
        (pc[r1] = "awaiting" /\ pc[r2] = "received")
        => busy = {} /\ ENABLED HandleRequest(r2)
C9_Witness ==
    \E r1, r2 \in Reqs :
        /\ r1 < r2
        /\ pc[r1] = "awaiting"
        /\ pc[r2] = "done" /\ resp[r2] = Fixed400

\* C10: a request whose provider call is pending is eventually answered.
C10_PendingCompletes ==
    \A r \in Reqs : (pc[r] = "awaiting") ~> (pc[r] = "done")

====
